---- MODULE Spec2Model ----
(***************************************************************************)
(* Model of CHT/extract_haplotype_read_counts.py.                          *)
(*                                                                         *)
(* Five specifications share the variables below:                          *)
(*   Spec         one call of set_snp_counts (lines 345-424), its          *)
(*                arguments drawn from bounded sets;                       *)
(*   SpecRegions  one call of get_target_regions (lines 522-556);          *)
(*   SpecMain     the read loop of main (lines 587-634), entered in the    *)
(*                state the start-up code (lines 561-585) leaves;          *)
(*   SpecWrite    get_region_read_counts and write_output as main calls    *)
(*                them for one line (lines 631-634);                       *)
(*   SpecHet      get_het_snps as main calls it (line 627).                *)
(* Python indices are 0-based; sequences here are 1-based, so haps[i] of   *)
(* the source is haps[i + 1] below.                                        *)
(***************************************************************************)
EXTENDS Integers, Sequences, FiniteSets, TLC

\* ---------------------------------------------------------------- bounds
\* largest chromosome position used by a call of set_snp_counts
MaxPos == 2
\* largest number of sub-intervals in the region_list of set_snp_counts
MaxRegions == 1
\* largest number of linked SNPs handed to set_snp_counts
MaxSnps == 1
\* largest number of sub-intervals on a line given to get_target_regions
MaxIntervals == 2
\* largest chromosome length (and coordinate) given to get_target_regions
MaxCoord == 6
\* largest --target_region_size given to get_target_regions
MaxTargetSize == 5
\* largest number of lines in the input file read by main
MaxLines == 3
\* largest number of SNPs in the list given to get_het_snps
MaxRegionSnps == 2

\* ------------------------------------------------------------- constants
\* line 83
SNP_UNDEF == -1
\* line 84
HAP_UNDEF == -1
\* the value of ref_idx / alt_idx when they are None (lines 374-375)
IDX_NONE == -1
\* a count attribute that SNP.__init__ (lines 87-93) has not created
UNSET == -1
\* test_snp = None (line 620): the test SNP is kept as a list of 0 or 1 SNPs
None == <<>>

VARIABLES
    \* arguments and locals of set_snp_counts
    homozygous_as_counts, test_snp, region_list, snps, ref_idx, alt_idx,
    ri, si,
    \* where the running function is, and the exception that ended it ("" if none)
    pc, err,
    \* number of calls of np.random.randint made so far
    n_draws,
    \* args.target_region_size (0: not given) and chrom.length
    target_region_size, chrom_length,
    \* the fields of the input line in hand (line 595)
    words,
    \* the input file f, the number of lines read from it, what was written
    \* to sys.stdout (a sequence of rows, each a sequence of fields), and how
    \* many times main has called each of its callees
    lines, line_count, stdout, calls,
    \* locals of main: the SNPs of the target regions (line 615), the test
    \* SNP position (line 607), the genome-wide read count (line 573)
    region_snps, snp_pos, genomewide_read_counts

vars == <<homozygous_as_counts, test_snp, region_list, snps, ref_idx, alt_idx,
          ri, si, pc, err, n_draws, target_region_size, chrom_length, words,
          lines, line_count, stdout, calls,
          region_snps, snp_pos, genomewide_read_counts>>

\* the variables of set_snp_counts, of get_target_regions and of main
phase_vars == <<homozygous_as_counts, test_snp, snps, ref_idx, alt_idx, ri, si>>

row_vars == <<region_snps, snp_pos, genomewide_read_counts>>

main_vars == <<lines, line_count, stdout, calls, row_vars>>

\* ------------------------------------------------------------ data files
\* The count tracks of the chromosome (ref_count_h5, alt_count_h5,
\* other_count_h5: lines 381-383), as functions of the 1-based position.
ref_node == [p \in 1..(MaxPos + 1) |->
               CASE p = 1 -> 7 [] p = 2 -> 10 [] p = 3 -> 0 [] OTHER -> p]

alt_node == [p \in 1..(MaxPos + 1) |->
               CASE p = 1 -> 2 [] p = 2 -> 3 [] p = 3 -> 0 [] OTHER -> p]

other_node == [p \in 1..(MaxPos + 1) |->
               CASE p = 1 -> 1 [] p = 2 -> 0 [] p = 3 -> 5 [] OTHER -> p + 1]

\* the track of all reads (read_count_h5, line 514)
read_node == [p \in 1..(MaxPos + 1) |->
               CASE p = 1 -> 4 [] p = 2 -> 6 [] p = 3 -> 1 [] OTHER -> p]

\* The SNP index of the chromosome (snp_index_h5, line 261): the row of the
\* SNP at each position, SNP_UNDEF where there is none. Position 1 holds a
\* SNP, the other positions hold none.
snp_idx_tab == [p \in 1..(MaxPos + 1) |-> IF p = 1 THEN 0 ELSE SNP_UNDEF]

\* Values of genomewide_read_counts (line 573): the reads of this
\* chromosome alone, or with those of other chromosomes.
GenomewideCounts == {read_node[1] + read_node[2], read_node[1] + read_node[2] + 9}

\* node[start-1:end] of a track (lines 385-387): a 0-based array read
\* through a Python slice; element k (0-based) of the slice is position
\* start + k of the chromosome.
Slice(node, start, end) == [k \in 1..(end - start + 1) |-> node[start - 1 + k]]

\* ------------------------------------------------------------------ SNPs
HapValues == {0, 1, HAP_UNDEF}

\* class SNP (lines 87-93) with the attribute snp.haps of line 293; the
\* count attributes do not exist until set_snp_counts creates them.
NewSNP(pos, haps) ==
    [pos |-> pos, haps |-> haps,
     ref_hap_count |-> UNSET, alt_hap_count |-> UNSET, other_count |-> UNSET]

\* the SNPs get_het_snps (line 308) lets through: the two indices differ
HetPairs == {h \in HapValues \X HapValues : h[1] # h[2]}

Positions == 1..MaxPos

\* coord.Coord(chrom, start, end), one chromosome
Coords == {[start |-> s, end |-> e] : s \in Positions, e \in Positions}

SeqsFromTo(S, lo, hi) == UNION {[1..k -> S] : k \in lo..hi}

\* the functions main calls while it reads the input (lines 587-634)
Callees == {"write_NA_line", "get_target_regions", "get_region_snps",
            "get_het_snps", "set_snp_counts", "get_region_read_counts",
            "write_output"}

NoCalls == [c \in Callees |-> 0]

\* the values of --homozygous_as_counts (line 201) and one that is none of them
Policies == {"zero", "rand_hap", "rand_allele", "bogus"}

\* ------------------------------------------------------- set_snp_counts
\* lines 350-351: the condition under which the test SNP's phase is used
test_snp_is_het(t) ==
    /\ t # None
    /\ t[1].haps[1] # t[1].haps[2]
    /\ t[1].haps[1] # HAP_UNDEF

\* phase_idx with the else branch of line 358 lost: slot 0 is always taken as
\* the reference haplotype of a heterozygous test SNP
phase_idx_first_slot(t, policy, coin) ==
    IF test_snp_is_het(t)
    THEN [ref_idx |-> 0, alt_idx |-> 1, drew |-> FALSE]
    ELSE IF policy = "rand_hap"
         THEN IF coin = 0
              THEN [ref_idx |-> 0, alt_idx |-> 1, drew |-> TRUE]
              ELSE [ref_idx |-> 1, alt_idx |-> 0, drew |-> TRUE]
         ELSE [ref_idx |-> IDX_NONE, alt_idx |-> IDX_NONE, drew |-> FALSE]

\* lines 350-375: ref_idx and alt_idx; coin is the value np.random.randint(2)
\* returns if it is called
phase_idx(t, policy, coin) ==
    IF test_snp_is_het(t)
    THEN IF t[1].haps[1] = 0
         THEN [ref_idx |-> 0, alt_idx |-> 1, drew |-> FALSE]
         ELSE [ref_idx |-> 1, alt_idx |-> 0, drew |-> FALSE]
    ELSE IF policy = "rand_hap"
         THEN IF coin = 0
              THEN [ref_idx |-> 0, alt_idx |-> 1, drew |-> TRUE]
              ELSE [ref_idx |-> 1, alt_idx |-> 0, drew |-> TRUE]
         ELSE [ref_idx |-> IDX_NONE, alt_idx |-> IDX_NONE, drew |-> FALSE]

\* line 392
in_region(snp, region) == snp.pos >= region.start /\ snp.pos <= region.end

\* lines 393-424: the body of the loop for one SNP that lies in the region.
\* Returns the SNP, the exception raised ("" if none) and whether
\* np.random.randint was called (coin is what it returned).
snp_counts(snp, region, rIdx, policy, coin) ==
    LET offset == snp.pos - region.start
        ref_count == Slice(ref_node, region.start, region.end)[offset + 1]
        alt_count == Slice(alt_node, region.start, region.end)[offset + 1]
        s == [snp EXCEPT !.other_count =
                  Slice(other_node, region.start, region.end)[offset + 1]]
        same == [s EXCEPT !.ref_hap_count = ref_count, !.alt_hap_count = alt_count]
        swap == [s EXCEPT !.ref_hap_count = alt_count, !.alt_hap_count = ref_count]
    IN  IF rIdx = IDX_NONE
        THEN IF policy = "zero"
             THEN [snp |-> [s EXCEPT !.ref_hap_count = 0, !.alt_hap_count = 0],
                   err |-> "", drew |-> FALSE]
             ELSE IF policy = "rand_allele"
                  THEN [snp |-> IF coin = 0 THEN same ELSE swap,
                        err |-> "", drew |-> TRUE]
                  ELSE [snp |-> s,
                        err |-> "ValueError: unknown homozygous_as_counts option",
                        drew |-> FALSE]
        ELSE IF s.haps[rIdx + 1] = 0
             THEN [snp |-> same, err |-> "", drew |-> FALSE]
             ELSE IF s.haps[rIdx + 1] = 1
                  THEN [snp |-> swap, err |-> "", drew |-> FALSE]
                  ELSE [snp |-> s,
                        err |-> "ValueError: expected haplotype to be defined",
                        drew |-> FALSE]

\* The two nested loops of lines 378 and 389: the (region, snp) pair that
\* follows pair (r, s), as <<r', s'>>; r' > nRegions when the loops are over.
next_pair(r, s, nRegions, nSnps) ==
    IF nSnps = 0 THEN <<nRegions + 1, 1>>
    ELSE IF s < nSnps THEN <<r, s + 1>> ELSE <<r + 1, 1>>

\* lines 350-376: entry of set_snp_counts up to the first loop iteration
set_snp_counts_phase ==
    /\ pc = "set_snp_counts"
    /\ \E coin \in {0, 1} :
         LET ph == phase_idx(test_snp, homozygous_as_counts, coin)
         IN  /\ ref_idx' = ph.ref_idx
             /\ alt_idx' = ph.alt_idx
             /\ n_draws' = IF ph.drew THEN n_draws + 1 ELSE n_draws
    /\ ri' = 1
    /\ si' = 1
    \* region_list has at least one region; with no SNPs the loops do nothing
    /\ pc' = IF Len(snps) = 0 THEN "returned" ELSE "loop"
    /\ UNCHANGED <<homozygous_as_counts, test_snp, region_list, snps, err>>
    /\ UNCHANGED <<target_region_size, chrom_length, words, main_vars>>

\* lines 378-424: one iteration of the inner loop, for SNP si in region ri
set_snp_counts_snp ==
    /\ pc = "loop"
    /\ \E coin \in {0, 1} :
         LET region == region_list[ri]
             snp == snps[si]
             res == IF in_region(snp, region)
                    THEN snp_counts(snp, region, ref_idx, homozygous_as_counts, coin)
                    ELSE [snp |-> snp, err |-> "", drew |-> FALSE]
             nxt == next_pair(ri, si, Len(region_list), Len(snps))
         IN  /\ snps' = [snps EXCEPT ![si] = res.snp]
             /\ n_draws' = IF res.drew THEN n_draws + 1 ELSE n_draws
             /\ err' = res.err
             /\ IF res.err # ""
                THEN pc' = "raised" /\ UNCHANGED <<ri, si>>
                ELSE /\ ri' = nxt[1]
                     /\ si' = nxt[2]
                     /\ pc' = IF nxt[1] > Len(region_list) THEN "returned" ELSE "loop"
    /\ UNCHANGED <<homozygous_as_counts, test_snp, region_list, ref_idx, alt_idx>>
    /\ UNCHANGED <<target_region_size, chrom_length, words, main_vars>>

\* the arguments of one call of set_snp_counts
Init ==
    /\ homozygous_as_counts \in Policies
    /\ test_snp \in {None} \cup {<<NewSNP(1, h)>> : h \in HapValues \X HapValues}
    /\ region_list \in SeqsFromTo({c \in Coords : c.start <= c.end}, 1, MaxRegions)
    /\ snps \in SeqsFromTo({NewSNP(p, h) : p \in Positions, h \in HetPairs}, 0, MaxSnps)
    /\ ref_idx = IDX_NONE
    /\ alt_idx = IDX_NONE
    /\ ri = 1
    /\ si = 1
    /\ pc = "set_snp_counts"
    /\ err = ""
    /\ n_draws = 0
    /\ target_region_size = 0
    /\ chrom_length = MaxPos
    /\ words = <<>>
    /\ lines = <<>>
    /\ line_count = 0
    /\ stdout = <<>>
    /\ calls = NoCalls
    /\ region_snps = <<>>
    /\ snp_pos = 0
    /\ genomewide_read_counts = 0

Next == set_snp_counts_phase \/ set_snp_counts_snp

Spec == Init /\ [][Next]_vars

\* --------------------------------------------------- get_target_regions
\* int(w) of a field holding a decimal number (lines 537, 538, 607)
int(w) == CHOOSE n \in 0..(MaxCoord + 1) : ToString(n) = w

\* An input line after line.rstrip().split(): words[0], ..., words[8] of the
\* source are words[1], ..., words[9] here. Fields 7 and 8 are kept as the
\* lists that split(";") gives (lines 526-527), every item a decimal string.
Words(snp_field, start_words, end_words) ==
    <<"chr1", snp_field, "rs", "A", "G", ".", ".", start_words, end_words>>

\* Coord.length() of the imported module coord (line 543), which is not
\* part of the source at hand: the number of positions start..end
length(region) == region.end - region.start + 1

\* lines 537-554: the Coord built from one start/end pair, resized when
\* args.target_region_size is given and differs from its length. The
\* script is Python 2 (tables.openFile, implicit relative imports), where
\* "/" on two ints is floor division.
target_region(size, chrom_len, start, end) ==
    LET region == [start |-> start, end |-> end]
        mid == (region.start + region.end) \div 2
        s1 == mid - size \div 2
        e1 == mid + size \div 2
    IN  IF size # 0 /\ length(region) # size
        THEN [start |-> IF s1 < 1 THEN 1 ELSE s1,
              end |-> IF e1 > chrom_len THEN chrom_len ELSE e1]
        ELSE region

\* lines 526-556: the value returned ("region_list"), or the exception raised
target_regions(size, chrom_len, w) ==
    LET start_words == w[8]
        end_words == w[9]
    IN  IF Len(start_words) # Len(end_words)
        THEN [err |-> "CoordError: number of start and end positions do not match",
              region_list |-> <<>>]
        ELSE [err |-> "",
              region_list |->
                  [i \in 1..Len(start_words) |->
                      target_region(size, chrom_len,
                                    int(start_words[i]), int(end_words[i]))]]

\* one call of get_target_regions(args, chrom, words)
get_target_regions ==
    /\ pc = "get_target_regions"
    /\ LET res == target_regions(target_region_size, chrom_length, words)
       IN  /\ region_list' = res.region_list
           /\ err' = res.err
           /\ pc' = IF res.err = "" THEN "returned" ELSE "raised"
    /\ UNCHANGED <<phase_vars, n_draws, target_region_size, chrom_length, words,
                   main_vars>>

\* decimal strings of the coordinates 1..n
Numerals(n) == {ToString(k) : k \in 1..n}

\* start and end lists of a line: as many ends as starts with start <= end
\* in every pair, or (a malformed line) lists of different lengths
WordPairs(n) ==
    {p \in SeqsFromTo(Numerals(n), 1, MaxIntervals)
            \X SeqsFromTo(Numerals(n), 1, MaxIntervals) :
        Len(p[1]) = Len(p[2]) => \A i \in 1..Len(p[1]) : int(p[1][i]) <= int(p[2][i])}

\* the arguments of one call of get_target_regions
InitRegions ==
    /\ chrom_length \in 1..MaxCoord
    /\ target_region_size \in 0..MaxTargetSize
    /\ \E p \in WordPairs(chrom_length) : words = Words("1", p[1], p[2])
    /\ region_list = <<>>
    /\ pc = "get_target_regions"
    /\ err = ""
    /\ homozygous_as_counts = "zero"
    /\ test_snp = None
    /\ snps = <<>>
    /\ ref_idx = IDX_NONE
    /\ alt_idx = IDX_NONE
    /\ ri = 1
    /\ si = 1
    /\ n_draws = 0
    /\ lines = <<>>
    /\ line_count = 0
    /\ stdout = <<>>
    /\ calls = NoCalls
    /\ region_snps = <<>>
    /\ snp_pos = 0
    /\ genomewide_read_counts = 0

NextRegions == get_target_regions

SpecRegions == InitRegions /\ [][NextRegions]_vars

\* ------------------------------------------------------------------ main
\* lines 429-445: the header row, 17 column names
write_header ==
    <<"CHROM", "TEST.SNP.POS", "TEST.SNP.ID", "TEST.SNP.REF.ALLELE",
      "TEST.SNP.ALT.ALLELE", "TEST.SNP.GENOTYPE", "TEST.SNP.HAPLOTYPE",
      "REGION.START", "REGION.END", "REGION.SNP.POS", "REGION.SNP.HET.PROB",
      "REGION.SNP.LINKAGE.PROB", "REGION.SNP.REF.HAP.COUNT",
      "REGION.SNP.ALT.HAP.COUNT", "REGION.SNP.OTHER.HAP.COUNT",
      "REGION.READ.COUNT", "GENOMEWIDE.READ.COUNT">>

\* write_NA_line with one "NA" for each column of the header
write_NA_line_per_column == [i \in 1..Len(write_header) |-> "NA"]

\* lines 448-449: the row " ".join(["NA"] * 15)
write_NA_line == [i \in 1..15 |-> "NA"]

\* A line of the input file: whether it starts with "#" (line 592) and what
\* line.rstrip().split() gives for it (line 595).
Line(comment, w) == [comment |-> comment, words |-> w]

CommentLine == Line(TRUE, <<"#", "CHROM", "TEST.SNP.POS">>)

BlankLine == Line(FALSE, <<>>)

NALine == Line(FALSE, Words("NA", <<"NA">>, <<"NA">>))

\* lines with a test-SNP position and one sub-interval, and one line whose
\* start and end lists differ in length
DataLines ==
    {Line(FALSE, Words(q, <<a>>, <<b>>)) :
        q \in Numerals(MaxPos),
        a \in Numerals(MaxPos), b \in Numerals(MaxPos)}
    \cup {Line(FALSE, Words("1", <<"1", "1">>, <<"1">>))}

LineSet ==
    {CommentLine, BlankLine, NALine}
    \cup {l \in DataLines :
            Len(l.words[8]) = Len(l.words[9])
                => int(l.words[8][1]) <= int(l.words[9][1])}

\* the line the loop of line 587 reads next
next_line == lines[line_count + 1]

called(f) == [calls EXCEPT ![f] = @ + 1]

\* lines 587-593: a line starting with "#" is skipped
main_comment ==
    /\ pc = "main_loop"
    /\ line_count < Len(lines)
    /\ next_line.comment
    /\ line_count' = line_count + 1
    /\ UNCHANGED <<phase_vars, region_list, pc, err, n_draws, target_region_size,
                   chrom_length, words, lines, stdout, calls, row_vars>>

\* lines 587-597 for a line with fewer than two fields: words[1] raises
main_short_line ==
    /\ pc = "main_loop"
    /\ line_count < Len(lines)
    /\ ~next_line.comment
    /\ Len(next_line.words) < 2
    /\ line_count' = line_count + 1
    /\ words' = next_line.words
    /\ pc' = "raised"
    /\ err' = "IndexError: list index out of range"
    /\ UNCHANGED <<phase_vars, region_list, n_draws, target_region_size,
                   chrom_length, lines, stdout, calls, row_vars>>

\* lines 587-600: a line whose test-SNP field is "NA"
main_NA ==
    /\ pc = "main_loop"
    /\ line_count < Len(lines)
    /\ ~next_line.comment
    /\ Len(next_line.words) >= 2
    /\ next_line.words[2] = "NA"
    /\ line_count' = line_count + 1
    /\ words' = next_line.words
    /\ stdout' = Append(stdout, write_NA_line)
    /\ calls' = called("write_NA_line")
    /\ UNCHANGED <<phase_vars, region_list, pc, err, n_draws, target_region_size,
                   chrom_length, lines, row_vars>>

\* lines 587-615 for any other line. get_target_regions returns or raises
\* (line 605); get_region_snps (line 615) then reads the four tables of the
\* chromosome and, region_list holding at least one region, reaches line
\* 270, which names snp_indx_tab: no such name exists (the table fetched at
\* line 261 is snp_idx_tab), so NameError ends the run before a row is
\* written.
main_data ==
    /\ pc = "main_loop"
    /\ line_count < Len(lines)
    /\ ~next_line.comment
    /\ Len(next_line.words) >= 2
    /\ next_line.words[2] # "NA"
    /\ line_count' = line_count + 1
    /\ words' = next_line.words
    /\ LET res == target_regions(target_region_size, chrom_length, next_line.words)
       IN  IF res.err # ""
           THEN /\ err' = res.err
                /\ calls' = called("get_target_regions")
                /\ UNCHANGED <<region_list, snp_pos>>
           ELSE /\ err' = "NameError: name 'snp_indx_tab' is not defined"
                /\ calls' = [calls EXCEPT !["get_target_regions"] = @ + 1,
                                          !["get_region_snps"] = @ + 1]
                /\ region_list' = res.region_list
                /\ snp_pos' = int(next_line.words[2])
    /\ pc' = "raised"
    /\ UNCHANGED <<phase_vars, n_draws, target_region_size, chrom_length, lines,
                   stdout, region_snps, genomewide_read_counts>>

\* lines 636-638, after the last line: f.close(), then dt.close() where no
\* name dt exists
main_eof ==
    /\ pc = "main_loop"
    /\ line_count = Len(lines)
    /\ pc' = "raised"
    /\ err' = "NameError: name 'dt' is not defined"
    /\ UNCHANGED <<phase_vars, region_list, n_draws, target_region_size,
                   chrom_length, words, main_vars>>

\* The state in which the loop of line 587 is entered: the header is
\* written (line 563), nothing is read yet. The start-up code before the
\* loop (lines 561-585) is not modelled; as written it cannot complete
\* (line 178 gives add_argument a second name that is no option string,
\* line 505 reads a name gdb that does not exist), so what is checked of
\* main is the loop itself.
InitMain ==
    /\ lines \in SeqsFromTo(LineSet, 0, MaxLines)
    /\ line_count = 0
    /\ stdout = <<write_header>>
    /\ calls = NoCalls
    /\ homozygous_as_counts \in {"zero", "rand_hap", "rand_allele"}
    /\ target_region_size \in {0, 1}
    /\ chrom_length = MaxPos
    /\ words = <<>>
    /\ region_list = <<>>
    /\ pc = "main_loop"
    /\ err = ""
    /\ test_snp = None
    /\ snps = <<>>
    /\ ref_idx = IDX_NONE
    /\ alt_idx = IDX_NONE
    /\ ri = 1
    /\ si = 1
    /\ n_draws = 0
    /\ region_snps = <<>>
    /\ snp_pos = 0
    /\ genomewide_read_counts \in GenomewideCounts

NextMain == main_comment \/ main_short_line \/ main_NA \/ main_data \/ main_eof

SpecMain == InitMain /\ [][NextMain]_vars

\* ------------------------------------------------- notions of the claims
\* The test SNP is phased: it exists, its two haplotype indices differ and
\* neither of them is undefined.
Phased(t) ==
    /\ t # None
    /\ t[1].haps[1] # t[1].haps[2]
    /\ t[1].haps[1] # HAP_UNDEF
    /\ t[1].haps[2] # HAP_UNDEF

\* the slot (0 or 1) of a phased test SNP that carries the reference allele
RefSlot(t) == IF t[1].haps[1] = 0 THEN 0 ELSE 1

\* SNP i of snps lies in one of the sub-intervals of region_list
InSomeRegion(i) ==
    \E r \in 1..Len(region_list) :
        snps[i].pos >= region_list[r].start /\ snps[i].pos <= region_list[r].end

\* (ref-hap count, alt-hap count) of SNP i, and its raw counts in both orders
HapCounts(i) == <<snps[i].ref_hap_count, snps[i].alt_hap_count>>

RawCounts(i) == <<ref_node[snps[i].pos], alt_node[snps[i].pos]>>

RawSwapped(i) == <<alt_node[snps[i].pos], ref_node[snps[i].pos]>>

\* what Step 2 assigns to SNP i when slot idx is the reference haplotype
Step2(i, idx) ==
    /\ snps[i].haps[idx + 1] \in {0, 1}
    /\ snps[i].haps[idx + 1] = 0 => HapCounts(i) = RawCounts(i)
    /\ snps[i].haps[idx + 1] = 1 => HapCounts(i) = RawSwapped(i)

Linked == {i \in 1..Len(snps) : InSomeRegion(i)}

\* the sub-intervals of region_list do not overlap
Disjoint ==
    \A a, b \in 1..Len(region_list) :
        a # b => \/ region_list[a].end < region_list[b].start
                 \/ region_list[b].end < region_list[a].start

UndefinedHaplotypeError == "ValueError: expected haplotype to be defined"

\* ----------------------------------------------------------------- claims
\* C1: with a phased test SNP, set_snp_counts draws no random number and
\* gives every linked SNP in a sub-interval (ref-hap, alt-hap) = (raw ref,
\* raw alt) if its haplotype index at the test SNP's reference slot is 0 and
\* (raw alt, raw ref) if that index is 1.
C1_PhasedAssignment ==
    Phased(test_snp) =>
        /\ n_draws = 0
        /\ pc = "returned" => \A i \in Linked : Step2(i, RefSlot(test_snp))

\* C1's case: reference allele of the test SNP on slot 0, raw counts ref=7,
\* alt=2; the linked SNP with pair (1,0) got (ref-hap, alt-hap) = (2,7).
C1_Witness ==
    /\ pc = "returned"
    /\ test_snp # None
    /\ test_snp[1].haps = <<0, 1>>
    /\ Linked = {1}
    /\ snps[1].haps = <<1, 0>>
    /\ RawCounts(1) = <<7, 2>>
    /\ HapCounts(1) = <<2, 7>>
    /\ n_draws = 0

\* C2: after set_snp_counts returns, every linked SNP in a sub-interval has
\* (ref-hap, alt-hap) equal to (raw ref, raw alt) or (raw alt, raw ref),
\* except that both are 0 when the policy is zero and the test SNP is not
\* phased.
C2_Conservation ==
    pc = "returned" =>
        \A i \in Linked :
            IF homozygous_as_counts = "zero" /\ ~Phased(test_snp)
            THEN HapCounts(i) = <<0, 0>>
            ELSE HapCounts(i) \in {RawCounts(i), RawSwapped(i)}

\* C3: the test SNP is treated as phased only if it exists, its indices
\* differ and neither is undefined, and then ref_idx is the slot holding 0
\* and alt_idx the slot holding 1; otherwise no phase is taken from it: the
\* indices are None, or under rand_hap come from one random draw.
C3_PhasedOnlyIfDefined ==
    pc # "set_snp_counts" =>
        IF Phased(test_snp)
        THEN /\ ref_idx \in {0, 1}
             /\ alt_idx = 1 - ref_idx
             /\ test_snp[1].haps[ref_idx + 1] = 0
             /\ test_snp[1].haps[alt_idx + 1] = 1
        ELSE IF homozygous_as_counts = "rand_hap"
             THEN n_draws = 1 /\ ref_idx \in {0, 1} /\ alt_idx = 1 - ref_idx
             ELSE ref_idx = IDX_NONE /\ alt_idx = IDX_NONE

\* C4: under policy zero with a test SNP that is not phased, every linked
\* SNP in a sub-interval ends with ref-hap = alt-hap = 0; and under every
\* policy its other count is the raw other-allele count at its position.
C4_ZeroFallback ==
    pc = "returned" =>
        \A i \in Linked :
            /\ snps[i].other_count = other_node[snps[i].pos]
            /\ (homozygous_as_counts = "zero" /\ ~Phased(test_snp))
                   => HapCounts(i) = <<0, 0>>

\* C5: under rand_hap with a test SNP that is not phased, exactly one
\* random draw is made per call, it fixes (ref_idx, alt_idx), and every
\* linked SNP in a sub-interval gets what Step 2 gives for that ref_idx.
C5_RandHapOneDraw ==
    (homozygous_as_counts = "rand_hap" /\ ~Phased(test_snp)
        /\ pc # "set_snp_counts") =>
        /\ n_draws = 1
        /\ ref_idx \in {0, 1}
        /\ alt_idx = 1 - ref_idx
        /\ pc = "returned" => \A i \in Linked : Step2(i, ref_idx)

\* C6: under rand_allele with a test SNP that is not phased and disjoint
\* sub-intervals, the call returns (the SNPs' haplotype indices are not
\* consulted, so nothing is raised), one random draw was made for each
\* linked SNP in a sub-interval and none besides, and each such SNP has
\* (raw ref, raw alt) or (raw alt, raw ref).
C6_RandAllelePerSnp ==
    (homozygous_as_counts = "rand_allele" /\ ~Phased(test_snp) /\ Disjoint) =>
        /\ pc # "raised"
        /\ pc = "returned" =>
              /\ n_draws = Cardinality(Linked)
              /\ \A i \in Linked : HapCounts(i) \in {RawCounts(i), RawSwapped(i)}

C8_UndefinedHaplotype ==
    /\ ((Phased(test_snp) \/ homozygous_as_counts = "rand_hap")
          /\ pc # "set_snp_counts"
          /\ \E i \in Linked : snps[i].haps[ref_idx + 1] \notin {0, 1})
        => /\ pc # "returned"
           /\ pc = "raised" =>
                 /\ err = UndefinedHaplotypeError
                 /\ HapCounts(si) = <<UNSET, UNSET>>
    /\ (homozygous_as_counts \in {"zero", "rand_allele"} /\ ~Phased(test_snp))
        => err # UndefinedHaplotypeError

\* C9: when a target size is given and differs from a sub-interval's
\* length, the sub-interval returned satisfies 1 <= start and end <=
\* chromosome length and, when it was not clamped (it lies strictly inside
\* the chromosome), is exactly target-size long; a sub-interval whose length
\* equals the target size, or any sub-interval when no size is given, is
\* returned as read.
C9_RegionSizeOverride ==
    (pc = "returned" /\ Len(words) = 9) =>
          /\ Len(region_list) = Len(words[8])
          /\ \A i \in 1..Len(region_list) :
                LET s0 == int(words[8][i])
                    e0 == int(words[9][i])
                    r == region_list[i]
                IN  IF target_region_size # 0 /\ e0 - s0 + 1 # target_region_size
                    THEN /\ 1 <= r.start
                         /\ r.end <= chrom_length
                         /\ (1 < r.start /\ r.end < chrom_length)
                               => r.end - r.start + 1 = target_region_size
                    ELSE r = [start |-> s0, end |-> e0]

\* the line is not a comment and its test-SNP field is the skip marker
IsSkipLine(l) == ~l.comment /\ Len(l.words) >= 2 /\ l.words[2] = "NA"

\* number of lines among the first k that are not comments
NonComment(k) == Cardinality({j \in 1..k : ~lines[j].comment})

\* Reading a skip-marker line appends exactly one row of 15 "NA" fields and
\* nothing else, calls none of the parsing or lookup functions, draws no
\* random number, raises nothing and leaves the loop at the next line.
C10_SkipStep ==
    (pc = "main_loop" /\ line_count < Len(lines) /\ IsSkipLine(next_line)) =>
        /\ stdout' = Append(stdout, [i \in 1..15 |-> "NA"])
        /\ \A f \in Callees \ {"write_NA_line"} : calls'[f] = calls[f]
        /\ n_draws' = n_draws
        /\ pc' = "main_loop"
        /\ err' = ""
        /\ line_count' = line_count + 1

\* Every skip-marker line read so far has its row, of 15 "NA" fields, at
\* the place its rank among the non-comment lines gives it (row 1 is the
\* header).
C10_RowsInOrder ==
    \A k \in 1..line_count :
        IsSkipLine(lines[k]) =>
            /\ Len(stdout) >= 1 + NonComment(k)
            /\ stdout[1 + NonComment(k)] = [i \in 1..15 |-> "NA"]

IsDataLine(l) ==
    /\ ~l.comment
    /\ Len(l.words) = 9
    /\ l.words[2] # "NA"
    /\ Len(l.words[8]) = Len(l.words[9])

\* Reading a data line whose test-SNP position holds no SNP record does not
\* end the run: nothing is raised, set_snp_counts is not called, no random
\* number is drawn, exactly one row is appended, whose test-SNP id, alleles,
\* genotype and haplotype fields (3-7) and linked-SNP fields (10-15) are
\* "NA", and the loop goes on with the next line.
C11_MissingStep ==
    (/\ pc = "main_loop"
     /\ line_count < Len(lines)
     /\ IsDataLine(next_line)
     /\ snp_idx_tab[int(next_line.words[2])] = SNP_UNDEF) =>
        /\ pc' = "main_loop"
        /\ err' = ""
        /\ line_count' = line_count + 1
        /\ n_draws' = n_draws
        /\ calls'["set_snp_counts"] = calls["set_snp_counts"]
        /\ Len(stdout') = Len(stdout) + 1
        /\ SubSeq(stdout', 1, Len(stdout)) = stdout
        /\ LET row == stdout'[Len(stdout')]
           IN  /\ Len(row) = 17
               /\ \A k \in (3..7) \cup (10..15) : row[k] = "NA"

\* C11: when the test-SNP position of a line resolves to no SNP record, the
\* run does not abort: no phasing is done and no random draw consumed,
\* exactly one row is written with "NA" test-SNP and linked-SNP fields, and
\* processing continues with the next line.
C11_MissingTestSnp == [][C11_MissingStep]_vars

\* ------------------------------------- get_region_read_counts, write_output
\* Probabilities are kept in hundredths: 100 is 1.0.
\* "%.2f" % x
Fmt2(x) ==
    ToString(x \div 100) \o "." \o ToString((x % 100) \div 10) \o ToString(x % 10)

\* sep.join(items)
RECURSIVE join(_, _)
join(sep, items) ==
    IF Len(items) = 0 THEN ""
    ELSE IF Len(items) = 1 THEN items[1]
         ELSE items[1] \o sep \o join(sep, Tail(items))

\* geno_probs of one individual at a SNP (line 280): homozygous reference,
\* heterozygous, homozygous alternative
GenoProbs == {<<0, 100, 0>>, <<2, 8, 90>>}

\* lines 282-296: the SNP get_region_snps builds from the tables
RegionSNP(pos, haps, geno_probs) ==
    [pos |-> pos, haps |-> haps,
     ref_hap_count |-> UNSET, alt_hap_count |-> UNSET, other_count |-> UNSET,
     name |-> "rs" \o ToString(pos), ref_allele |-> "A", alt_allele |-> "G",
     het_prob |-> geno_probs[2],
     geno_sum |-> geno_probs[2] + 2 * geno_probs[3],
     linkage_prob |-> 100]

\* np.sum(counts), line 517
RECURSIVE np_sum(_)
np_sum(counts) ==
    IF Len(counts) = 0 THEN 0
    ELSE counts[1] + np_sum([k \in 1..(Len(counts) - 1) |-> counts[k + 1]])

\* lines 509-518
RECURSIVE get_region_read_counts(_)
get_region_read_counts(regions) ==
    IF Len(regions) = 0 THEN 0
    ELSE np_sum(Slice(read_node, regions[1].start, regions[1].end))
         + get_region_read_counts(Tail(regions))

\* lines 457-458: region_start_str and region_end_str
region_strs(regions) ==
    <<join(";", [i \in 1..Len(regions) |-> ToString(regions[i].start)]),
      join(";", [i \in 1..Len(regions) |-> ToString(regions[i].end)])>>

\* lines 476-495: the six fields of the linked heterozygous SNPs
linked_fields(het_snps) ==
    IF Len(het_snps) > 0
    THEN <<join(";", [i \in 1..Len(het_snps) |-> ToString(het_snps[i].pos)]),
           join(";", [i \in 1..Len(het_snps) |-> Fmt2(het_snps[i].het_prob)]),
           join(";", [i \in 1..Len(het_snps) |-> Fmt2(het_snps[i].linkage_prob)]),
           join(";", [i \in 1..Len(het_snps) |-> ToString(het_snps[i].ref_hap_count)]),
           join(";", [i \in 1..Len(het_snps) |-> ToString(het_snps[i].alt_hap_count)]),
           join(";", [i \in 1..Len(het_snps) |-> ToString(het_snps[i].other_count)])>>
    ELSE [i \in 1..6 |-> "NA"]

\* the two counts written in the opposite order
count_fields_swapped(region_read_count, genomewide_read_count) ==
    <<ToString(genomewide_read_count), ToString(region_read_count)>>

\* line 498
count_fields(region_read_count, genomewide_read_count) ==
    <<ToString(region_read_count), ToString(genomewide_read_count)>>

\* lines 452-499: the row written, as the sequence of its fields. Every
\* piece is written after a single space and no field holds a space.
write_output(regions, het_snps, t, test_snp_pos, region_read_count, genomewide_read_count) ==
    LET strs == region_strs(regions)
    IN  IF t = None
        THEN <<"chr1", ToString(test_snp_pos), "NA", "NA", "NA", "NA", "NA",
               strs[1], strs[2]>> \o [i \in 1..8 |-> "NA"]
        ELSE <<"chr1", ToString(t[1].pos), t[1].name, t[1].ref_allele,
               t[1].alt_allele, Fmt2(t[1].geno_sum),
               ToString(t[1].haps[1]) \o "|" \o ToString(t[1].haps[2]),
               strs[1], strs[2]>>
             \o linked_fields(het_snps)
             \o count_fields(region_read_count, genomewide_read_count)

\* lines 631-634: the row of one input line
main_write_row ==
    /\ pc = "write_row"
    /\ stdout' = Append(stdout,
                        write_output(region_list, snps, test_snp, snp_pos,
                                     get_region_read_counts(region_list),
                                     genomewide_read_counts))
    /\ calls' = [calls EXCEPT !["get_region_read_counts"] = @ + 1,
                              !["write_output"] = @ + 1]
    /\ pc' = "main_loop"
    /\ UNCHANGED <<phase_vars, region_list, err, n_draws, target_region_size,
                   chrom_length, words, lines, line_count, row_vars>>

\* a SNP of the regions with the counts set_snp_counts gives it when slot 0
\* is the reference haplotype (lines 409-417)
Counted(snp) ==
    IF snp.haps[1] = 0
    THEN [snp EXCEPT !.ref_hap_count = ref_node[snp.pos],
                     !.alt_hap_count = alt_node[snp.pos],
                     !.other_count = other_node[snp.pos]]
    ELSE [snp EXCEPT !.ref_hap_count = alt_node[snp.pos],
                     !.alt_hap_count = ref_node[snp.pos],
                     !.other_count = other_node[snp.pos]]

\* the linked heterozygous SNPs main can hand to write_output for regions
LinkedSNPs(regions) ==
    {Counted(RegionSNP(p, h, g)) :
        p \in {q \in Positions : \E i \in 1..Len(regions) :
                                    q >= regions[i].start /\ q <= regions[i].end},
        h \in {<<0, 1>>, <<1, 0>>}, g \in GenoProbs}

\* The state of main at line 631 for one input line: the test SNP was not
\* found (lines 619-622, het_snps empty) or was found (lines 624-629).
InitWrite ==
    /\ pc = "write_row"
    /\ region_list \in SeqsFromTo({c \in Coords : c.start <= c.end}, 1, MaxRegions)
    /\ snp_pos \in Positions
    /\ \/ test_snp = None /\ snps = <<>>
       \/ /\ test_snp \in {<<RegionSNP(snp_pos, h, g)>> :
                              h \in {<<0, 1>>, <<1, 1>>, <<HAP_UNDEF, HAP_UNDEF>>},
                              g \in GenoProbs}
          /\ snps \in SeqsFromTo(LinkedSNPs(region_list), 0, MaxSnps)
    /\ genomewide_read_counts \in GenomewideCounts
    /\ stdout = <<write_header>>
    /\ calls = NoCalls
    /\ homozygous_as_counts = "zero"
    /\ ref_idx = IDX_NONE
    /\ alt_idx = IDX_NONE
    /\ ri = 1
    /\ si = 1
    /\ err = ""
    /\ n_draws = 0
    /\ target_region_size = 0
    /\ chrom_length = MaxPos
    /\ words = <<>>
    /\ lines = <<>>
    /\ line_count = 0
    /\ region_snps = <<>>

NextWrite == main_write_row

SpecWrite == InitWrite /\ [][NextWrite]_vars

\* the reads of the total-read track at positions lo..hi
RECURSIVE TrackSum(_, _)
TrackSum(lo, hi) == IF lo > hi THEN 0 ELSE read_node[lo] + TrackSum(lo + 1, hi)

\* the sum of the total-read track over sub-intervals i..Len(region_list)
RECURSIVE RegionReads(_)
RegionReads(i) ==
    IF i > Len(region_list) THEN 0
    ELSE TrackSum(region_list[i].start, region_list[i].end) + RegionReads(i + 1)

\* a row has been written for the line
RowWritten == calls["write_output"] > 0

LastRow == stdout[Len(stdout)]

\* the row has as many fields as the header, the last two are the region
\* read count and the genome-wide read count, and with no linked SNPs the
\* six linked-SNP fields, and only they, are "NA"
FullRow ==
    /\ Len(LastRow) = 17
    /\ Len(LastRow) = Len(write_header)
    /\ LastRow[16] = ToString(RegionReads(1))
    /\ LastRow[17] = ToString(genomewide_read_counts)
    /\ Len(snps) = 0 =>
          /\ \A k \in 10..15 : LastRow[k] = "NA"
          /\ \A k \in (1..9) \cup {16, 17} : LastRow[k] # "NA"

get_het_snps(snp_list) ==
    SelectSeq(snp_list, LAMBDA snp : snp.haps[1] # snp.haps[2])

\* line 627: main filters the SNPs of the target regions
main_get_het_snps ==
    /\ pc = "get_het_snps"
    /\ snps' = get_het_snps(region_snps)
    /\ calls' = called("get_het_snps")
    /\ pc' = "set_snp_counts"
    /\ UNCHANGED <<homozygous_as_counts, test_snp, region_list, ref_idx, alt_idx,
                   ri, si, err, n_draws, target_region_size, chrom_length,
                   words, lines, line_count, stdout, row_vars>>

\* The state of main at line 627: the test SNP was found, region_snps holds
\* the SNPs of the target region with the haplotype indices the haplotype
\* table gives them (line 281), each 0, 1 or HAP_UNDEF.
InitHet ==
    /\ pc = "get_het_snps"
    /\ region_snps \in SeqsFromTo({NewSNP(p, h) : p \in Positions,
                                                 h \in HapValues \X HapValues},
                                  0, MaxRegionSnps)
    /\ region_list = <<[start |-> 1, end |-> MaxPos]>>
    /\ test_snp = <<NewSNP(1, <<0, 1>>)>>
    /\ snp_pos = 1
    /\ snps = <<>>
    /\ genomewide_read_counts \in GenomewideCounts
    /\ stdout = <<write_header>>
    /\ calls = NoCalls
    /\ homozygous_as_counts = "zero"
    /\ ref_idx = IDX_NONE
    /\ alt_idx = IDX_NONE
    /\ ri = 1
    /\ si = 1
    /\ err = ""
    /\ n_draws = 0
    /\ target_region_size = 0
    /\ chrom_length = MaxPos
    /\ words = <<>>
    /\ lines = <<>>
    /\ line_count = 0

NextHet == main_get_het_snps

SpecHet == InitHet /\ [][NextHet]_vars

\* the places of region_snps whose SNP has two differing indices
Differing == {i \in 1..Len(region_snps) :
                 region_snps[i].haps[1] # region_snps[i].haps[2]}

\* snps is region_snps restricted to the places in Differing, in order
ExactlyDiffering ==
    /\ Len(snps) = Cardinality(Differing)
    /\ \E f \in [1..Len(snps) -> Differing] :
          /\ \A j, k \in 1..Len(snps) : j < k => f[j] < f[k]
          /\ \A k \in 1..Len(snps) : snps[k] = region_snps[f[k]]

\* C13: every SNP that get_het_snps returns, and so every linked SNP handed
\* to set_snp_counts, has both haplotype indices defined (0 or 1): a SNP
\* with an undefined index is never returned, and the SNPs returned are
\* exactly those whose two indices differ, in input order.
C13_HetDefined ==
    calls["get_het_snps"] > 0 =>
        /\ \A k \in 1..Len(snps) :
              snps[k].haps[1] \in {0, 1} /\ snps[k].haps[2] \in {0, 1}
        /\ ExactlyDiffering

====
